---- MODULE Spec2Model ----
(***************************************************************************)
(* Model of noam.py: the live batch watcher (processor_thread), the client *)
(* grouper (group_keys_by_client), the collage builder                     *)
(* (create_collages_from_paths) and the deposit sender (api_upload_files). *)
(*                                                                         *)
(* A Python str is a sequence of one-character strings.  An object key is  *)
(* such a sequence; a normalized image is represented by the key it was    *)
(* made from; a collage is represented by the sequence of images it tiles. *)
(***************************************************************************)
EXTENDS Integers, Sequences, FiniteSets, TLC

(***************************************************************************)
(* Bounds of the model                                                     *)
(***************************************************************************)
\* runner["inactivity_s"] and runner["poll_s"] as set by the UI sliders
\* (10..300 and 0.5..5.0); the thread reads them once when it starts.
inactivity_s == 10
poll_s == 5
\* longest list of keys handed to group_keys_by_client when it is checked
\* alone
MaxKeys == 3
\* longest list of images handed to create_collages_from_paths when it is
\* checked alone, and the number of different lists of each length
MaxImages == 37
ImageLists == 3
\* number of deposit POSTs of a run that the service may fail
MaxPostFailures == 1
\* longest file list handed to api_upload_files when it is checked alone
MaxFiles == 26
\* images of client A beyond its full chunks, and images of client B
TailImages == 3
SmallImages == 2
\* full chunks of images the browser uploads for client A
FullChunks == 2

(***************************************************************************)
(* Literals of the program                                                 *)
(***************************************************************************)
\* processor_thread: "if len(buf) < 36", "buf[:36]"
CHUNK_SIZE == 36
\* api_upload_files: "range(0, total, 12)"
MAX_PER_CALL == 12
\* create_collages_from_paths: "range(0, len(img_paths), 3)"
COLLAGE_GROUP == 3

(***************************************************************************)
(* Python str                                                              *)
(***************************************************************************)
\* the characters keys are written in, by class, each in code-point order
DIGITS == << "0", "1", "2", "3", "4", "5", "6", "7", "8", "9" >>
UPPER ==
  << "A", "B", "C", "D", "E", "F", "G", "H", "I", "J", "K", "L", "M", "N",
     "O", "P", "Q", "R", "S", "T", "U", "V", "W", "X", "Y", "Z" >>
LOWER ==
  << "a", "b", "c", "d", "e", "f", "g", "h", "i", "j", "k", "l", "m", "n",
     "o", "p", "q", "r", "s", "t", "u", "v", "w", "x", "y", "z" >>

IndexOf(seq, c) == CHOOSE i \in 1..Len(seq) : seq[i] = c
Range(seq) == {seq[i] : i \in 1..Len(seq)}

\* ord(c)
Ord ==
  [c \in {" ", "-", ".", "/", "_"} \cup Range(DIGITS) \cup Range(UPPER)
         \cup Range(LOWER) |->
     CASE c = " " -> 32
       [] c = "-" -> 45
       [] c = "." -> 46
       [] c = "/" -> 47
       [] c = "_" -> 95
       [] c \in Range(DIGITS) -> 47 + IndexOf(DIGITS, c)
       [] c \in Range(UPPER) -> 64 + IndexOf(UPPER, c)
       [] c \in Range(LOWER) -> 96 + IndexOf(LOWER, c)]

Min(a, b) == IF a < b THEN a ELSE b
Max(a, b) == IF a > b THEN a ELSE b

\* a < b on str: code-point lexicographic order, decided at the first
\* position where the two differ; a proper prefix is smaller
StrLess(a, b) ==
  LET diff == {i \in 1..Min(Len(a), Len(b)) : a[i] # b[i]}
  IN  IF diff = {} THEN Len(a) < Len(b)
      ELSE LET i == CHOOSE d \in diff : \A e \in diff : d <= e
           IN  Ord[a[i]] < Ord[b[i]]

\* s.startswith(p)
startswith(s, p) == Len(s) >= Len(p) /\ SubSeq(s, 1, Len(p)) = p

\* s.endswith(p)
endswith(s, p) ==
  Len(s) >= Len(p) /\ SubSeq(s, Len(s) - Len(p) + 1, Len(s)) = p

\* s.strip(ch): drop every leading and trailing occurrence of ch
RECURSIVE lstrip(_, _)
lstrip(s, ch) ==
  IF s # <<>> /\ Head(s) = ch THEN lstrip(Tail(s), ch) ELSE s

RECURSIVE rstrip(_, _)
rstrip(s, ch) ==
  IF s # <<>> /\ s[Len(s)] = ch THEN rstrip(SubSeq(s, 1, Len(s) - 1), ch)
  ELSE s

strip(s, ch) == rstrip(lstrip(s, ch), ch)

\* s.split(sep) for a one-character sep: always at least one part
RECURSIVE split(_, _)
split(s, sep) ==
  IF \E i \in 1..Len(s) : s[i] = sep
  THEN LET i == CHOOSE j \in 1..Len(s) :
                  s[j] = sep /\ \A l \in 1..(j - 1) : s[l] # sep
       IN  <<SubSeq(s, 1, i - 1)>> \o split(SubSeq(s, i + 1, Len(s)), sep)
  ELSE <<s>>

(***************************************************************************)
(* CLIENT_RE = ^\s*(.+?)\s*-\s*(.+?)\s*$  ("ClientName - Address")          *)
(***************************************************************************)
\* the 1-based position of the hyphen the regex matches as separator, or 0
\* when the regex does not match.  Both groups need at least one character,
\* so a separator has one before and one after it.  The leading \s* is
\* greedy and the first group lazy: the separator is the first hyphen after
\* the first non-blank character, and failing that (by backtracking into
\* the blanks) that first non-blank character itself.
CLIENT_RE(seg) ==
  LET n   == Len(seg)
      p0  == Len(seg) - Len(lstrip(seg, " ")) + 1
      hs  == {h \in 2..(n - 1) : seg[h] = "-"}
      aft == {h \in hs : h >= p0 + 1}
  IN  IF hs = {} THEN 0
      ELSE IF aft # {} THEN CHOOSE h \in aft : \A g \in aft : h <= g
      ELSE p0

\* split_client(folder): (name, address), both stripped, or None
None == <<"None">>
split_client(folder) ==
  LET h == CLIENT_RE(folder)
  IN  IF h = 0 THEN None
      ELSE << strip(SubSeq(folder, 1, h - 1), " "),
              strip(SubSeq(folder, h + 1, Len(folder)), " ") >>

\* find_client_segment(path_rel): first segment matching CLIENT_RE, or None
find_client_segment(path_rel) ==
  LET parts == split(strip(path_rel, "/"), "/")
      hits  == {i \in 1..Len(parts) : CLIENT_RE(parts[i]) # 0}
  IN  IF hits = {} THEN None
      ELSE parts[CHOOSE i \in hits : \A j \in hits : i <= j]

(***************************************************************************)
(* list.sort() on a list of str: a stable merge sort                       *)
(***************************************************************************)
\* the merge of two ascending lists, equal elements of a first: the
\* elements of a up to the first of b, then the elements of b below the
\* next of a, then the merge of what is left
RECURSIVE merge(_, _)
merge(a, b) ==
  IF a = <<>> THEN b
  ELSE IF b = <<>> THEN a
  ELSE IF ~StrLess(b[1], a[Len(a)]) THEN a \o b
  ELSE LET k == Cardinality({i \in 1..Len(a) : ~StrLess(b[1], a[i])})
           m == IF k = Len(a) THEN Len(b)
                ELSE Cardinality({j \in 1..Len(b) : StrLess(b[j], a[k + 1])})
       IN  SubSeq(a, 1, k) \o SubSeq(b, 1, m)
             \o merge(SubSeq(a, k + 1, Len(a)), SubSeq(b, m + 1, Len(b)))

RECURSIVE sort(_)
sort(v) ==
  IF Len(v) <= 1 THEN v
  ELSE LET h == Len(v) \div 2
       IN  merge(sort(SubSeq(v, 1, h)), sort(SubSeq(v, h + 1, Len(v))))

(***************************************************************************)
(* group_keys_by_client: a dict is (order, map), order being the           *)
(* insertion order of its keys, which is the order items() iterates in.    *)
(***************************************************************************)
EmptyDict == [order |-> <<>>, map |-> <<>>]

\* the test of line 179 without its 'or k.endswith("/")'
client_seg_with_dirs(k, batch_prefix) ==
  IF ~startswith(k, batch_prefix) THEN None
  ELSE find_client_segment(SubSeq(k, Len(batch_prefix) + 1, Len(k)))

\* lines 179-182: the client segment of a key, None when the key is
\* skipped (wrong prefix, directory marker) or has no such segment
client_seg_of(k, batch_prefix) ==
  IF ~startswith(k, batch_prefix) \/ endswith(k, <<"/">>) THEN None
  ELSE find_client_segment(SubSeq(k, Len(batch_prefix) + 1, Len(k)))

\* lines 177-184: groups.setdefault(client_seg, []).append(k) for every
\* key in turn.  The dict holds the segments in the order of their first
\* key, each with its keys in the order of the list.
collect_groups(keys, batch_prefix) ==
  LET segs   == [i \in 1..Len(keys) |-> client_seg_of(keys[i], batch_prefix)]
      firsts == {i \in 1..Len(keys) :
                   segs[i] # None /\ \A j \in 1..(i - 1) : segs[j] # segs[i]}
      order  == [r \in 1..Cardinality(firsts) |->
                   segs[CHOOSE i \in firsts :
                          Cardinality({j \in firsts : j < i}) = r - 1]]
  IN  [order |-> order,
       map |-> [r \in 1..Len(order) |->
                  SelectSeq(keys, LAMBDA k :
                                    client_seg_of(k, batch_prefix) = order[r])]]

\* the grouping without its "for v in groups.values(): v.sort()"
group_keys_unsorted(keys, batch_prefix) == collect_groups(keys, batch_prefix)

\* the grouping with "v.sort(reverse=True)" for "v.sort()"
group_keys_descending(keys, batch_prefix) ==
  LET groups == collect_groups(keys, batch_prefix)
      rev(v) == [i \in 1..Len(v) |-> v[Len(v) + 1 - i]]
  IN  [groups EXCEPT !.map = [i \in 1..Len(groups.map) |->
                                rev(sort(groups.map[i]))]]

\* lines 176-187
group_keys_by_client(keys, batch_prefix) ==
  LET groups == collect_groups(keys, batch_prefix)
  IN  [groups EXCEPT !.map = [i \in 1..Len(groups.map) |-> sort(groups.map[i])]]

(***************************************************************************)
(* dict helpers (insertion-ordered)                                        *)
(***************************************************************************)
\* a membership test made on the wrong dict: never true
Has_wrong_dict(d, k) == FALSE

\* line 226: client_folder in rt["clients"]
Has(d, k) == \E i \in 1..Len(d.order) : d.order[i] = k
Idx(d, k) == CHOOSE i \in 1..Len(d.order) : d.order[i] = k
Get(d, k) == d.map[Idx(d, k)]

(***************************************************************************)
(* The batch and what the browser uploads                                  *)
(***************************************************************************)
\* rt["runner"]["batch_id"] = str(uuid.uuid4())
batch_id == <<"b", "1">>
\* batch_prefix = f"uploads/{batch_id}/"
UPLOADS == <<"u", "p", "l", "o", "a", "d", "s", "/">>
batch_prefix == UPLOADS \o batch_id \o <<"/">>

\* two client folders; B lies below the folder the user picked
FolderA == <<"A", " ", "-", " ", "x">>
FolderB == <<"B", "-", "y">>
\* file names in key order: a0, a1, ..., a9, b0, ...
FileName(i) == <<LOWER[(i \div 10) + 1], DIGITS[(i % 10) + 1]>>
KeyA(i) == batch_prefix \o FolderA \o <<"/">> \o FileName(i)
KeyB(i) == batch_prefix \o <<"R", "/">> \o FolderB \o <<"/">> \o FileName(i)
\* keys the grouper must leave out: a directory marker, an image outside
\* every client folder, and an object of an earlier batch
DirMarker == batch_prefix \o <<"R", "/">> \o FolderB \o <<"/">>
StrayKey == batch_prefix \o <<"R", "/", "z">>
OldBatchKey == UPLOADS \o <<"b", "0", "/">> \o FolderA \o <<"/">> \o FileName(0)

\* an image in a client folder that lies inside another client folder
NestedKey ==
  batch_prefix \o FolderA \o <<"/">> \o FolderB \o <<"/">> \o FileName(0)

\* The browser PUTs the files with 8 workers, in no fixed order.  What a
\* listing can see is bounded to unions of these upload batches: the first
\* images of client A, its later images, and what lies below folder R.
BatchNames == {"tail", "full", "small"}
BatchKeys(b) ==
  CASE b = "tail" -> [i \in 1..TailImages |-> KeyA(i - 1)]
    [] b = "full" -> [i \in 1..(FullChunks * CHUNK_SIZE) |->
                        KeyA(TailImages + i - 1)]
    [] b = "small" -> <<DirMarker>> \o [i \in 1..SmallImages |-> KeyB(i - 1)]
                      \o <<StrayKey>>

\* objects whose download or decoding may fail (on any attempt)
FlakyKeys == {KeyA(0)}

(***************************************************************************)
(* State                                                                   *)
(***************************************************************************)
VARIABLES
  storage,         \* the R2 bucket: its keys, in listing (key) order
  pending,         \* upload batches the browser has not finished yet
  runner,          \* rt["runner"]: running, ended, error
  since_activity,  \* time.time() - runner["last_activity"], in seconds
  clients,         \* rt["clients"], an insertion-ordered dict
  logs,            \* rt["logs"], as the set of kinds of lines logged
  pc,              \* where processor_thread stands
  loc,             \* processor_thread's local variables
  chunks,          \* history: the calls of create_collages_from_paths
  posts,           \* history: the POSTs of api_upload_files, each with
                   \* the number of the chunk it was made for
  geo_calls,       \* history: the folders get_coordinates was called for
  ui               \* where the UI script stands in its current run

vars ==
  <<storage, pending, runner, since_activity, clients, logs, pc, loc,
    chunks, posts, geo_calls, ui>>

\* make_runtime()
make_runtime ==
  [running |-> FALSE, ended |-> FALSE, error |-> None]

\* locals of processor_thread, at their values outside any loop
\* the value of "description" while the local is not bound
NoDescription == [name |-> None, address |-> None, lat |-> None, lng |-> None]

\* lines 556-559: the script has started the thread and comes to the table
UiTop == [pc |-> "top", size |-> 0, i |-> 0]

\* "added" is no local of the code: it records that line 315 has put a
\* key into seen_keys since the listing of the current poll cycle
NoLocals ==
  [groups |-> EmptyDict, updated |-> FALSE, gi |-> 0, new_keys |-> <<>>,
   ki |-> 0, block |-> <<>>, description |-> NoDescription, collages |-> <<>>,
   start |-> 0, phase |-> "poll", items |-> <<>>, di |-> 0, added |-> FALSE]

Init ==
  /\ storage = <<OldBatchKey>>
  /\ pending = BatchNames
  /\ runner = make_runtime
  /\ since_activity = 0
  /\ clients = EmptyDict
  /\ logs = {}
  /\ pc = "start"
  /\ loc = NoLocals
  /\ chunks = <<>>
  /\ posts = <<>>
  /\ geo_calls = <<>>
  /\ ui = UiTop

\* rt_log(rt, msg)
rt_log(lg, kind) == lg \cup {kind}

(***************************************************************************)
(* The browser: PUT of the files of one batch                              *)
(***************************************************************************)
\* the bucket after the PUT of new keys: a listing is in key order
put_all(bucket, keys) == merge(bucket, sort(keys))

\* Only list_objects reads the bucket, so an upload that completes during a
\* poll cycle is seen exactly as one that completes right before the next
\* listing: uploads are taken at that point.
Upload(b) ==
  /\ pc = "list"
  /\ b \in pending
  /\ pending' = pending \ {b}
  /\ storage' = put_all(storage, BatchKeys(b))
  /\ UNCHANGED <<geo_calls, ui, runner, since_activity, clients, logs, pc, loc, chunks, posts>>

(***************************************************************************)
(* processor_thread                                                        *)
(***************************************************************************)
\* lines 258-264
Start ==
  /\ pc = "start"
  /\ logs' = rt_log(logs, "start")
  /\ runner' = [runner EXCEPT !.running = TRUE, !.ended = FALSE,
                              !.error = None]
  /\ since_activity' = 0
  /\ pc' = "list"
  /\ UNCHANGED <<geo_calls, ui, storage, pending, clients, loc, chunks, posts>>

\* list_objects(prefix): the keys with the prefix, in listing order
list_objects(prefix) == SelectSeq(storage, LAMBDA k : startswith(k, prefix))

\* where the thread goes after the group at position gi of a loop over
\* groups.items(): the next group, or the statement after the loop
AfterRegister(groups, gi) ==
  IF gi < Len(groups.order) THEN [pc |-> "ensure", gi |-> gi + 1]
  ELSE [pc |-> "select", gi |-> 1]

\* the loop without "if updated: last_activity = time.time()"
AfterGroup_noreset(groups, gi, updated) ==
  IF gi < Len(groups.order) THEN [pc |-> "select", gi |-> gi + 1]
  ELSE [pc |-> "inactive", gi |-> 0]

\* lines 286, 349: the next group of the second loop, or what follows it
AfterGroup(groups, gi, updated) ==
  IF gi < Len(groups.order) THEN [pc |-> "select", gi |-> gi + 1]
  ELSE [pc |-> IF updated THEN "activity" ELSE "inactive", gi |-> 0]

\* lines 268-270: the listing succeeds
ListOk ==
  /\ pc = "list"
  /\ LET keys   == list_objects(batch_prefix)
         groups == group_keys_by_client(keys, batch_prefix)
     IN  /\ loc' = [NoLocals EXCEPT !.groups = groups,
                                    !.gi = IF groups.order = <<>> THEN 0 ELSE 1]
         /\ pc' = IF groups.order = <<>> THEN "inactive" ELSE "ensure"
  /\ UNCHANGED <<geo_calls, ui, storage, pending, runner, since_activity, clients, logs,
                 chunks, posts>>

\* line 268: s3.list_objects_v2 raises
ListFails ==
  /\ pc = "list"
  /\ pc' = "except"
  /\ loc' = NoLocals
  /\ UNCHANGED <<geo_calls, ui, storage, pending, runner, since_activity, clients, logs,
                 chunks, posts>>

\* get_coordinates(address): a pair of floats, or (None, None).  Values
\* that are not str (None, a float, the "N/A" sentinel the table shows)
\* are written as one-element tuples.
GeoResults == {<<None, None>>, << <<"48.85">>, <<"2.35">> >>}
NA == <<"N/A">>

\* lines 224-242, given what get_coordinates returned
rt_ensure_client(cl, client_folder, name, address, geo) ==
  IF Has(cl, client_folder) THEN cl
  ELSE LET miss == geo[1] = None \/ geo[2] = None
       IN  [order |-> Append(cl.order, client_folder),
            map |-> Append(cl.map,
              [name |-> name, address |-> address,
               lat |-> IF miss THEN NA ELSE geo[1],
               lng |-> IF miss THEN NA ELSE geo[2],
               seen_keys |-> {},
               normalized_count |-> 0,
               buffer_paths |-> <<>>,
               files_sent |-> 0,
               collages_sent |-> 0,
               api_calls |-> 0,
               status |-> "en attente",
               r2_seen_count |-> 0])]

\* the folder the loop over groups.items() is at
Folder == loc.groups.order[loc.gi]
ClientKeys == loc.groups.map[loc.gi]

\* lines 273-278: first loop over the groups, rt_ensure_client.
\* split_client matches the same CLIENT_RE that chose the segment.
EnsureClient ==
  /\ pc = "ensure"
  /\ LET parsed == split_client(Folder)
     IN  IF parsed = None
         THEN /\ pc' = AfterRegister(loc.groups, loc.gi).pc
              /\ loc' = [loc EXCEPT !.gi = AfterRegister(loc.groups, loc.gi).gi]
              /\ UNCHANGED <<clients, geo_calls>>
         ELSE /\ pc' = "mark"
              /\ UNCHANGED loc
              /\ IF Has(clients, Folder)
                 THEN UNCHANGED <<clients, geo_calls>>
                 ELSE /\ \E geo \in GeoResults :
                           clients' = rt_ensure_client(clients, Folder,
                                                       parsed[1], parsed[2], geo)
                      /\ geo_calls' = Append(geo_calls, Folder)
  /\ UNCHANGED <<ui, storage, pending, runner, since_activity, logs, chunks, posts>>

\* lines 279-283
Mark ==
  /\ pc = "mark"
  /\ clients' = [clients EXCEPT
                   !.map[Idx(clients, Folder)].r2_seen_count = Len(ClientKeys),
                   !.map[Idx(clients, Folder)].status = "traitement"]
  /\ pc' = AfterRegister(loc.groups, loc.gi).pc
  /\ loc' = [loc EXCEPT !.gi = AfterRegister(loc.groups, loc.gi).gi]
  /\ UNCHANGED <<geo_calls, ui, storage, pending, runner, since_activity, logs, chunks, posts>>

\* the comprehension without its "if k not in seen"
new_keys_unfiltered(client_keys, seen) == client_keys

\* line 295: new_keys = [k for k in client_keys if k not in seen]
new_keys_of(client_keys, seen) == SelectSeq(client_keys, LAMBDA k : k \notin seen)

\* lines 286-301: second loop over the groups, up to the normalisation
Select ==
  /\ pc = "select"
  /\ LET parsed == split_client(Folder)
         seen   == Get(clients, Folder).seen_keys
         new    == IF parsed = None THEN <<>> ELSE new_keys_of(ClientKeys, seen)
         after  == AfterGroup(loc.groups, loc.gi, loc.updated)
     IN  IF new = <<>>
         THEN /\ pc' = after.pc
              /\ loc' = [loc EXCEPT !.gi = after.gi]
         ELSE /\ pc' = "normalize"
              /\ loc' = [loc EXCEPT !.updated = TRUE, !.new_keys = new, !.ki = 1]
  /\ UNCHANGED <<geo_calls, ui, storage, pending, runner, since_activity, clients, logs,
                 chunks, posts>>

\* after the key at position ki of "for key in new_keys"
AfterKey(l) ==
  IF l.ki < Len(l.new_keys) THEN [pc |-> "normalize", ki |-> l.ki + 1]
  ELSE [pc |-> "chunk", ki |-> 0]

\* the key is buffered and counted, and not put into seen_keys
add_normalized_unseen(c, key) ==
  [c EXCEPT !.buffer_paths = Append(@, key),
            !.normalized_count = @ + 1]

\* lines 311-315: one key downloaded, normalized and written
add_normalized(c, key) ==
  [c EXCEPT !.buffer_paths = Append(@, key),
            !.normalized_count = @ + 1,
            !.seen_keys = @ \cup {key}]

\* lines 304-315: the key is downloaded and normalized
NormalizeOk ==
  /\ pc = "normalize"
  /\ LET key == loc.new_keys[loc.ki]
     IN  clients' = [clients EXCEPT !.map[Idx(clients, Folder)] =
                                       add_normalized(@, key)]
  /\ pc' = AfterKey(loc).pc
  /\ loc' = [loc EXCEPT !.ki = AfterKey(loc).ki,
                        !.new_keys = IF AfterKey(loc).ki = 0 THEN <<>> ELSE @,
                        !.added = TRUE]
  /\ UNCHANGED <<geo_calls, ui, storage, pending, runner, since_activity, logs, chunks, posts>>

\* the try around the whole for loop: the first failure ends the loop
after_failed_key_break(l) == [pc |-> "chunk", ki |-> 0]

\* lines 316-317: the except clause lies inside the for loop, so the loop
\* goes on with the next key
after_failed_key(l) == AfterKey(l)

\* lines 305-310, 316-317: the download or the decoding raises
NormalizeFails ==
  /\ pc = "normalize"
  /\ loc.new_keys[loc.ki] \in FlakyKeys
  /\ logs' = rt_log(logs, "normalisation failed")
  /\ pc' = after_failed_key(loc).pc
  /\ loc' = [loc EXCEPT !.ki = after_failed_key(loc).ki,
                        !.new_keys = IF after_failed_key(loc).ki = 0 THEN <<>>
                                     ELSE @]
  /\ UNCHANGED <<geo_calls, ui, storage, pending, runner, since_activity, clients, chunks, posts>>

(***************************************************************************)
(* create_collages_from_paths and api_upload_files                         *)
(***************************************************************************)
\* s[a:b] of Python, 0 <= a
Slice(s, a, b) == SubSeq(s, a + 1, Min(b, Len(s)))

\* lines 139-145: "for i in range(0, len(img_paths), 3)"; a collage is
\* written as the list of the images it tiles
RECURSIVE collage_loop(_, _, _)
collage_loop(out, img_paths, i) ==
  IF i >= Len(img_paths) THEN out
  ELSE collage_loop(Append(out, Slice(img_paths, i, i + COLLAGE_GROUP)),
                    img_paths, i + COLLAGE_GROUP)

\* a loop over the full groups of 3 only: range(0, len - len % 3, 3)
create_collages_full_groups(img_paths) ==
  collage_loop(<<>>,
               SubSeq(img_paths, 1, Len(img_paths) - (Len(img_paths) % 3)), 0)

\* lines 146-149 rename the first file and keep its place in the list
create_collages_from_paths(img_paths) == collage_loop(<<>>, img_paths, 0)

\* lines 335-336, 371-372
description_of(c) ==
  [name |-> c.name, address |-> c.address, lat |-> c.lat, lng |-> c.lng]

\* where api_upload_files returns to
ReturnPc(phase) ==
  CASE phase = "poll" -> "count"
    [] phase = "drain" -> "drain_count"
    [] OTHER -> "returned"

\* lines 64-67: entry of api_upload_files(description, filepaths, ...)
UploadEnter ==
  /\ pc = "upload"
  /\ IF Len(loc.collages) = 0
     THEN /\ pc' = ReturnPc(loc.phase)
          /\ UNCHANGED logs
     ELSE /\ pc' = "post"
          /\ logs' = rt_log(logs, "deposit")
  /\ loc' = [loc EXCEPT !.start = 0]
  /\ UNCHANGED <<geo_calls, ui, storage, pending, runner, since_activity, clients, chunks, posts>>

\* what requests.post can do: a success status, an error status, or
\* raising (timeout, connection error)
PostOutcomes == {"ok", "http error", "exception"}
Failed(p) == p.outcome # "ok"
PostFailures == Cardinality({i \in 1..Len(posts) : Failed(posts[i])})

\* line 68: "for start in range(0, total, 12)": the start after this one,
\* whatever the outcome of the POST
next_start(start) == start + MAX_PER_CALL

\* the slice with its upper end one short
sub_batch_short(filepaths, start) ==
  Slice(filepaths, start, start + MAX_PER_CALL - 1)

\* line 69: batch = filepaths[start:start+12]
sub_batch(filepaths, start) == Slice(filepaths, start, start + MAX_PER_CALL)

\* requests.post outside any try: what it raises reaches the except
\* clause of processor_thread
after_post_raise(outcome, normal_pc) ==
  IF outcome = "exception" THEN "except" ELSE normal_pc

\* lines 78-86: both except clauses log and fall through, so the thread
\* goes where it would go after a success
after_post(outcome, normal_pc) == normal_pc

\* lines 68-86: one sub-batch, one requests.post, one log line
UploadPost ==
  /\ pc = "post"
  /\ \E outcome \in PostOutcomes :
       /\ outcome # "ok" => PostFailures < MaxPostFailures
       /\ posts' = Append(posts, [call |-> Len(chunks),
                                  description |-> loc.description,
                                  start |-> loc.start,
                                  files |-> sub_batch(loc.collages, loc.start),
                                  outcome |-> outcome])
       /\ logs' = rt_log(logs, IF outcome = "exception" THEN "deposit error"
                               ELSE "deposit status")
       /\ IF next_start(loc.start) < Len(loc.collages)
          THEN /\ pc' = after_post(outcome, "post")
               /\ loc' = [loc EXCEPT !.start = next_start(loc.start)]
          ELSE /\ pc' = after_post(outcome, ReturnPc(loc.phase))
               /\ loc' = [loc EXCEPT !.start = 0]
  /\ UNCHANGED <<geo_calls, ui, storage, pending, runner, since_activity, clients, chunks>>

(***************************************************************************)
(* processor_thread: blocks of 36                                          *)
(***************************************************************************)
\* the test with "<=" for "<": a buffer of exactly 36 images would wait
chunk_ready_strict(buf) == Len(buf) > CHUNK_SIZE

\* line 323: "if len(buf) < 36: break"
chunk_ready(buf) == ~(Len(buf) < CHUNK_SIZE)

\* "del buf[:35]": the last image of the block stays in the buffer
rest_after_chunk_short(buf) == Slice(buf, CHUNK_SIZE - 1, Len(buf))

\* line 326: "del buf[:36]"
rest_after_chunk(buf) == Slice(buf, CHUNK_SIZE, Len(buf))

\* lines 320-330
Chunk ==
  /\ pc = "chunk"
  /\ LET c     == Get(clients, Folder)
         buf   == c.buffer_paths
         after == AfterGroup(loc.groups, loc.gi, loc.updated)
     IN  IF ~chunk_ready(buf)
         THEN /\ pc' = after.pc
              /\ loc' = [loc EXCEPT !.gi = after.gi]
              /\ UNCHANGED clients
         ELSE /\ pc' = "collage"
              /\ loc' = [loc EXCEPT !.block = Slice(buf, 0, CHUNK_SIZE),
                                    !.description = description_of(c)]
              /\ clients' = [clients EXCEPT
                               !.map[Idx(clients, Folder)].buffer_paths =
                                  rest_after_chunk(buf)]
  /\ UNCHANGED <<geo_calls, ui, storage, pending, runner, since_activity, logs, chunks, posts>>

\* lines 332-337: the collages of the block, then the call of
\* api_upload_files
Collage ==
  /\ pc = "collage"
  /\ chunks' = Append(chunks, [client |-> Folder, phase |-> "poll",
                               images |-> loc.block])
  /\ loc' = [loc EXCEPT !.collages = create_collages_from_paths(loc.block),
                        !.phase = "poll"]
  /\ pc' = "upload"
  /\ UNCHANGED <<geo_calls, ui, storage, pending, runner, since_activity, clients, logs, posts>>

\* one call more than needed for a full sub-batch: n // 12 + 1
api_calls_rounded(n) == n \div 12 + 1

\* lines 341, 378: max(1, (len(collages)+11)//12)
api_calls_for(n) == Max(1, (n + 11) \div 12)

\* files_sent counting the collages for the images of the block
count_sent_collages(c, block, collages) ==
  [c EXCEPT !.files_sent = @ + Len(collages),
            !.collages_sent = @ + Len(collages),
            !.api_calls = @ + api_calls_for(Len(collages))]

\* lines 339-341: the counters after a block of 36
count_sent(c, block, collages) ==
  [c EXCEPT !.files_sent = @ + Len(block),
            !.collages_sent = @ + Len(collages),
            !.api_calls = @ + api_calls_for(Len(collages))]

\* lines 338-347
Count ==
  /\ pc = "count"
  /\ clients' = [clients EXCEPT !.map[Idx(clients, Folder)] =
                                  count_sent(@, loc.block, loc.collages)]
  /\ logs' = rt_log(logs, "block sent")
  /\ loc' = [loc EXCEPT !.block = <<>>, !.collages = <<>>, !.description = NoDescription]
  /\ pc' = "chunk"
  /\ UNCHANGED <<geo_calls, ui, storage, pending, runner, since_activity, chunks, posts>>

(***************************************************************************)
(* processor_thread: activity, inactivity, drain                           *)
(***************************************************************************)
\* lines 349-351
Activity ==
  /\ pc = "activity"
  /\ since_activity' = 0
  /\ pc' = "inactive"
  /\ UNCHANGED <<geo_calls, ui, storage, pending, runner, clients, logs, loc, chunks, posts>>

\* line 355
inactive == since_activity > inactivity_s

\* lines 354-358, 385, 387: the test, and what follows it up to the first
\* statement that takes LOCK again
Inactive ==
  /\ pc = "inactive"
  /\ IF inactive
     THEN /\ logs' = rt_log(logs, "inactivity")
          /\ loc' = [NoLocals EXCEPT !.phase = "drain", !.items = clients.order,
                                     !.di = IF clients.order = <<>> THEN 0 ELSE 1]
          /\ pc' = IF clients.order = <<>> THEN "finally" ELSE "drain"
     ELSE /\ pc' = "sleep"
          /\ loc' = NoLocals
          /\ UNCHANGED logs
  /\ UNCHANGED <<geo_calls, ui, storage, pending, runner, since_activity, clients, chunks, posts>>

\* line 387: time.sleep(poll_s)
Sleep ==
  /\ pc = "sleep"
  /\ since_activity' = since_activity + poll_s
  /\ pc' = "list"
  /\ UNCHANGED <<geo_calls, ui, storage, pending, runner, clients, logs, loc, chunks, posts>>

DrainFolder == loc.items[loc.di]
\* a drain without the "break" of line 385: the while loop goes on
AfterDrain_nobreak(l) ==
  IF l.di < Len(l.items) THEN [pc |-> "drain", di |-> l.di + 1]
  ELSE [pc |-> "sleep", di |-> 0]

\* a drain that stops after the first client
AfterDrain_first(l) == [pc |-> "finally", di |-> 0]

\* line 358: "for client_folder, c in list(rt["clients"].items())"
AfterDrain(l) ==
  IF l.di < Len(l.items) THEN [pc |-> "drain", di |-> l.di + 1]
  ELSE [pc |-> "finally", di |-> 0]

\* lines 359-363
Drain ==
  /\ pc = "drain"
  /\ LET c == Get(clients, DrainFolder)
     IN  /\ loc' = [loc EXCEPT !.block = c.buffer_paths,
                               !.description = description_of(c)]
         /\ clients' = [clients EXCEPT
                          !.map[Idx(clients, DrainFolder)].buffer_paths = <<>>]
         /\ pc' = IF c.buffer_paths = <<>> THEN "drain_empty" ELSE "drain_collage"
  /\ UNCHANGED <<geo_calls, ui, storage, pending, runner, since_activity, logs, chunks, posts>>

\* lines 363-367
DrainEmpty ==
  /\ pc = "drain_empty"
  /\ clients' = [clients EXCEPT
                   !.map[Idx(clients, DrainFolder)].status = "termine"]
  /\ pc' = AfterDrain(loc).pc
  /\ loc' = [loc EXCEPT !.di = AfterDrain(loc).di, !.description = NoDescription,
                        !.items = IF AfterDrain(loc).di = 0 THEN <<>> ELSE @]
  /\ UNCHANGED <<geo_calls, ui, storage, pending, runner, since_activity, logs, chunks, posts>>

\* lines 368-373
DrainCollage ==
  /\ pc = "drain_collage"
  /\ chunks' = Append(chunks, [client |-> DrainFolder, phase |-> "drain",
                               images |-> loc.block])
  /\ loc' = [loc EXCEPT !.collages = create_collages_from_paths(loc.block)]
  /\ pc' = "upload"
  /\ UNCHANGED <<geo_calls, ui, storage, pending, runner, since_activity, clients, logs, posts>>

\* lines 374-384
DrainCount ==
  /\ pc = "drain_count"
  /\ clients' = [clients EXCEPT
       !.map[Idx(clients, DrainFolder)].files_sent = @ + Len(loc.block),
       !.map[Idx(clients, DrainFolder)].collages_sent = @ + Len(loc.collages),
       !.map[Idx(clients, DrainFolder)].api_calls =
          IF loc.collages # <<>> THEN @ + api_calls_for(Len(loc.collages))
          ELSE @,
       !.map[Idx(clients, DrainFolder)].status = "termine"]
  /\ pc' = AfterDrain(loc).pc
  /\ loc' = [loc EXCEPT !.di = AfterDrain(loc).di, !.block = <<>>,
                        !.collages = <<>>, !.description = NoDescription,
                        !.items = IF AfterDrain(loc).di = 0 THEN <<>> ELSE @]
  /\ UNCHANGED <<geo_calls, ui, storage, pending, runner, since_activity, logs, chunks, posts>>

(***************************************************************************)
(* processor_thread: except and finally                                    *)
(***************************************************************************)
\* str(e) of the exception list_objects raised
ListError == <<"list_objects failed">>

\* an except clause that logs and forgets the error
on_fatal_silent(r, e) == r

\* lines 391-392: runner["error"] = str(e)
on_fatal(r, e) == [r EXCEPT !.error = e]

\* lines 389-392
Except ==
  /\ pc = "except"
  /\ logs' = rt_log(logs, "fatal error")
  /\ runner' = on_fatal(runner, ListError)
  /\ pc' = "finally"
  /\ UNCHANGED <<geo_calls, ui, storage, pending, since_activity, clients, loc, chunks, posts>>

\* an exit handler that sets ended and leaves running as it is
on_exit_running(r) == [r EXCEPT !.ended = TRUE]

\* lines 394-396: runner["running"] = False; runner["ended"] = True
on_exit(r) == [r EXCEPT !.running = FALSE, !.ended = TRUE]

\* lines 393-401
Finally ==
  /\ pc = "finally"
  /\ runner' = on_exit(runner)
  /\ logs' = rt_log(logs, "end")
  /\ loc' = NoLocals
  /\ pc' = "done"
  /\ UNCHANGED <<geo_calls, ui, storage, pending, since_activity, clients, chunks, posts>>

Next ==
  \/ \E b \in BatchNames : Upload(b)
  \/ Start
  \/ ListOk
  \/ ListFails
  \/ EnsureClient
  \/ Mark
  \/ Select
  \/ NormalizeOk
  \/ NormalizeFails
  \/ Chunk
  \/ Collage
  \/ UploadEnter
  \/ UploadPost
  \/ Count
  \/ Activity
  \/ Inactive
  \/ Sleep
  \/ Drain
  \/ DrainEmpty
  \/ DrainCollage
  \/ DrainCount
  \/ Except
  \/ Finally

Spec == Init /\ [][Next]_vars

(***************************************************************************)
(* The UI script, which Streamlit runs from top to bottom in another       *)
(* thread while processor_thread runs.  A "with LOCK" block is one step;   *)
(* what the script does outside LOCK is a step of its own each time it     *)
(* reads the shared runtime.                                               *)
(***************************************************************************)
\* line 559: "if clients:", outside LOCK
UiIfClients ==
  /\ ui.pc = "top"
  /\ ui' = [ui EXCEPT !.pc = IF clients.order # <<>> THEN "table" ELSE "logs"]
  /\ UNCHANGED <<storage, pending, runner, since_activity, clients, logs, pc,
                 loc, chunks, posts, geo_calls>>

\* lines 563-576: the rows of the table, built under LOCK
UiTable ==
  /\ ui.pc = "table"
  /\ ui' = [ui EXCEPT !.pc = "bars"]
  /\ UNCHANGED <<storage, pending, runner, since_activity, clients, logs, pc,
                 loc, chunks, posts, geo_calls>>

\* line 581: "for cf, c in clients.items()", outside LOCK: the iterator
\* keeps the size the dict has now
UiBarsBegin ==
  /\ ui.pc = "bars"
  /\ ui' = [ui EXCEPT !.pc = "bar", !.size = Len(clients.order), !.i = 1]
  /\ UNCHANGED <<storage, pending, runner, since_activity, clients, logs, pc,
                 loc, chunks, posts, geo_calls>>

\* lines 581-592: one turn of the loop, outside LOCK.  The iterator raises
\* RuntimeError (dictionary changed size during iteration) when the dict
\* has not the size it had; the script run ends there.
UiBar ==
  /\ ui.pc = "bar"
  /\ ui' = IF Len(clients.order) # ui.size
           THEN [ui EXCEPT !.pc = "crashed", !.size = 0, !.i = 0]
           ELSE IF ui.i > ui.size
           THEN [ui EXCEPT !.pc = "logs", !.size = 0, !.i = 0]
           ELSE [ui EXCEPT !.i = @ + 1]
  /\ UNCHANGED <<storage, pending, runner, since_activity, clients, logs, pc,
                 loc, chunks, posts, geo_calls>>

\* lines 598-599: the log lines, read under LOCK
UiLogs ==
  /\ ui.pc = "logs"
  /\ ui' = [ui EXCEPT !.pc = "refresh"]
  /\ UNCHANGED <<storage, pending, runner, since_activity, clients, logs, pc,
                 loc, chunks, posts, geo_calls>>

\* lines 602-609: runner read outside LOCK; the script runs again after a
\* second while the thread is running, and stops otherwise
UiRefresh ==
  /\ ui.pc = "refresh"
  /\ ui' = IF runner.running /\ ~runner.ended THEN UiTop
           ELSE [ui EXCEPT !.pc = "stopped"]
  /\ UNCHANGED <<storage, pending, runner, since_activity, clients, logs, pc,
                 loc, chunks, posts, geo_calls>>

UiNext ==
  \/ UiIfClients
  \/ UiTable
  \/ UiBarsBegin
  \/ UiBar
  \/ UiLogs
  \/ UiRefresh

\* the browser has put the later images of client A before the thread
\* lists the bucket for the first time
UiInit ==
  /\ storage = put_all(<<OldBatchKey>>, BatchKeys("full"))
  /\ pending = {"tail", "small"}
  /\ runner = make_runtime
  /\ since_activity = 0
  /\ clients = EmptyDict
  /\ logs = {}
  /\ pc = "start"
  /\ loc = NoLocals
  /\ chunks = <<>>
  /\ posts = <<>>
  /\ geo_calls = <<>>
  /\ ui = UiTop

UiSpec == UiInit /\ [][Next \/ UiNext]_vars

(***************************************************************************)
(* api_upload_files alone, on a list of any length up to MaxFiles          *)
(***************************************************************************)
\* L files, all different
FileList(L) == [i \in 1..L |-> <<KeyA(i - 1)>>]

UploadInit ==
  /\ storage = <<OldBatchKey>>
  /\ pending = {}
  /\ runner = make_runtime
  /\ since_activity = 0
  /\ clients = EmptyDict
  /\ logs = {}
  /\ pc = "upload"
  /\ \E L \in 0..MaxFiles :
       loc = [NoLocals EXCEPT !.collages = FileList(L), !.phase = "call",
                              !.description = [NoDescription EXCEPT !.name = <<"A">>]]
  /\ chunks = <<>>
  /\ posts = <<>>
  /\ geo_calls = <<>>
  /\ ui = UiTop

UploadNext == UploadEnter \/ UploadPost

UploadSpec == UploadInit /\ [][UploadNext]_vars

(***************************************************************************)
(* group_keys_by_client alone, on the lists of at most MaxKeys different   *)
(* keys of a pool, in every order                                          *)
(***************************************************************************)
KeyPool == {KeyA(0), NestedKey, KeyB(0), DirMarker, StrayKey, OldBatchKey}

KeyLists(n) ==
  UNION {{K \in [1..m -> KeyPool] : \A i, j \in 1..m : K[i] = K[j] => i = j}
           : m \in 0..n}

\* "storage" holds the list of keys the function is called with
GroupInit ==
  /\ storage \in KeyLists(MaxKeys)
  /\ pending = {}
  /\ runner = make_runtime
  /\ since_activity = 0
  /\ clients = EmptyDict
  /\ logs = {}
  /\ pc = "group_call"
  /\ loc = NoLocals
  /\ chunks = <<>>
  /\ posts = <<>>
  /\ geo_calls = <<>>
  /\ ui = UiTop

\* lines 176-187: the call and its result
GroupCall ==
  /\ pc = "group_call"
  /\ loc' = [loc EXCEPT !.groups = group_keys_by_client(storage, batch_prefix)]
  /\ pc' = "grouped"
  /\ UNCHANGED <<geo_calls, ui, storage, pending, runner, since_activity,
                 clients, logs, chunks, posts>>

GroupNext == GroupCall

GroupSpec == GroupInit /\ [][GroupNext]_vars

(***************************************************************************)
(* create_collages_from_paths alone, on a list of any length up to         *)
(* MaxImages                                                               *)
(***************************************************************************)
\* M image paths, all different, the first being number s
ImageList(s, M) == [i \in 1..M |-> KeyA(s + i - 1)]

CollageInit ==
  /\ storage = <<OldBatchKey>>
  /\ pending = {}
  /\ runner = make_runtime
  /\ since_activity = 0
  /\ clients = EmptyDict
  /\ logs = {}
  /\ pc = "collage_call"
  /\ \E s \in 0..(ImageLists - 1), M \in 0..MaxImages :
       loc = [NoLocals EXCEPT !.block = ImageList(s, M), !.phase = "call"]
  /\ chunks = <<>>
  /\ posts = <<>>
  /\ geo_calls = <<>>
  /\ ui = UiTop

\* lines 138-150: the call and its result
CollageCall ==
  /\ pc = "collage_call"
  /\ loc' = [loc EXCEPT !.collages = create_collages_from_paths(loc.block)]
  /\ pc' = "collage_returned"
  /\ UNCHANGED <<geo_calls, ui, storage, pending, runner, since_activity,
                 clients, logs, chunks, posts>>

CollageNext == CollageCall

CollageSpec == CollageInit /\ [][CollageNext]_vars

(***************************************************************************)
(* The thread is scheduled as long as it can take a step; the browser may  *)
(* stop uploading at any time.                                             *)
(***************************************************************************)
Thread ==
  \/ Start
  \/ ListFails
  \/ ListOk
  \/ EnsureClient
  \/ Mark
  \/ Select
  \/ NormalizeOk
  \/ NormalizeFails
  \/ Chunk
  \/ Collage
  \/ UploadEnter
  \/ UploadPost
  \/ Count
  \/ Activity
  \/ Inactive
  \/ Sleep
  \/ Drain
  \/ DrainEmpty
  \/ DrainCollage
  \/ DrainCount
  \/ Except
  \/ Finally

FairSpec == Spec /\ WF_vars(Thread)

(***************************************************************************)
(* What the history says about one client                                  *)
(***************************************************************************)
ClientIdx == 1..Len(clients.order)

\* the blocks of one client that one phase passed to
\* create_collages_from_paths, in the order of the calls
ChunksOf(f, phase) ==
  SelectSeq(chunks, LAMBDA c : c.client = f /\ c.phase = phase)

RECURSIVE Flatten(_)
Flatten(ss) == IF ss = <<>> THEN <<>> ELSE ss[1] \o Flatten(Tail(ss))

Images(cs) == Flatten([i \in 1..Len(cs) |-> cs[i].images])

\* the thread ended through the inactivity branch, not through except
EndedByInactivity == pc = "done" /\ runner.error = None

IsAscending(s) == \A i \in 1..(Len(s) - 1) : StrLess(s[i], s[i + 1])

\* the block that has left the buffer and is not yet in the history
InFlight(f) ==
  IF pc = "collage" /\ Folder = f THEN loc.block
  ELSE IF pc = "drain_collage" /\ DrainFolder = f THEN loc.block
  ELSE <<>>

\* every key appended to the buffer of f so far, in the order of the appends
Appended(f) ==
  Images(SelectSeq(chunks, LAMBDA c : c.client = f)) \o InFlight(f)
    \o Get(clients, f).buffer_paths

(***************************************************************************)
(* C1: when the run ends through inactivity, a client with N normalized    *)
(* keys, however they were spread over the poll cycles, has had exactly    *)
(* floor(N/36) blocks of exactly 36 images taken in the polling phase,     *)
(* and the drain has taken one last block of N mod 36 images when that     *)
(* is positive, and none otherwise.                                        *)
(***************************************************************************)
C1_ChunkingExactness ==
  EndedByInactivity =>
    \A i \in ClientIdx :
      LET N     == Cardinality(clients.map[i].seen_keys)
          poll  == ChunksOf(clients.order[i], "poll")
          drain == ChunksOf(clients.order[i], "drain")
      IN  /\ Len(poll) = N \div CHUNK_SIZE
          /\ \A j \in 1..Len(poll) : Len(poll[j].images) = CHUNK_SIZE
          /\ Len(drain) = IF N % CHUNK_SIZE > 0 THEN 1 ELSE 0
          /\ \A j \in 1..Len(drain) : Len(drain[j].images) = N % CHUNK_SIZE

\* a run that ended with two blocks of 36 and a last block of the rest
C1_Witness ==
  /\ EndedByInactivity
  /\ \E i \in ClientIdx :
       /\ Len(ChunksOf(clients.order[i], "poll")) >= 2
       /\ Len(ChunksOf(clients.order[i], "drain")) = 1
       /\ Cardinality(clients.map[i].seen_keys) % CHUNK_SIZE > 0

(***************************************************************************)
(* C2: a key that is in seen_keys is never normalized again: the key the   *)
(* thread is about to normalize is never a seen one, seen_keys only        *)
(* grows, normalized_count grows by the number of keys that enter          *)
(* seen_keys, the buffer only ever grows by the one key being normalized,  *)
(* and a group whose keys are all seen is passed over.                     *)
(***************************************************************************)
C2_NoKeyReprocessing ==
  [][ /\ \A i \in ClientIdx :
           LET c == clients.map[i]
               d == clients'.map[i]
           IN  /\ c.seen_keys \subseteq d.seen_keys
               /\ d.normalized_count - c.normalized_count
                    = Cardinality(d.seen_keys \ c.seen_keys)
               /\ Len(d.buffer_paths) > Len(c.buffer_paths) =>
                    /\ pc = "normalize"
                    /\ clients.order[i] = Folder
                    /\ loc.new_keys[loc.ki] \notin c.seen_keys
                    /\ d.buffer_paths
                         = Append(c.buffer_paths, loc.new_keys[loc.ki])
                    /\ d.seen_keys = c.seen_keys \cup {loc.new_keys[loc.ki]}
      /\ pc = "normalize" =>
           loc.new_keys[loc.ki] \notin Get(clients, Folder).seen_keys
      /\ (/\ pc = "select"
          /\ Has(clients, Folder)
          /\ \A j \in 1..Len(ClientKeys) :
               ClientKeys[j] \in Get(clients, Folder).seen_keys)
           => pc' # "normalize" /\ clients' = clients
    ]_vars

\* a poll cycle has gone over groups whose keys were all seen already
C2_Witness ==
  /\ pc = "inactive"
  /\ ~loc.updated
  /\ \E i \in ClientIdx :
       /\ clients.map[i].normalized_count > 0
       /\ clients.map[i].buffer_paths # <<>>

(***************************************************************************)
(* C3: once the browser has stopped uploading, the thread ends (ended is   *)
(* True) whatever the normalizations do, keys that fail on every attempt   *)
(* included.                                                               *)
(***************************************************************************)
C3_Termination == <>(runner.ended)

(***************************************************************************)
(* C4, as stated: the keys appended to a client's buffer over the whole    *)
(* run are in ascending key order.                                         *)
(***************************************************************************)
C4_RunOrder == \A i \in ClientIdx : IsAscending(Appended(clients.order[i]))

(***************************************************************************)
(* C4, amended: the keys of one client appended during one poll cycle are  *)
(* appended in ascending key order, each at the end of the buffer.         *)
(***************************************************************************)
C4_CycleOrder ==
  [][ pc = "normalize" =>
        LET key == loc.new_keys[loc.ki]
            c   == Get(clients, Folder)
            d   == clients'.map[Idx(clients, Folder)]
        IN  /\ d.buffer_paths # c.buffer_paths =>
                 d.buffer_paths = Append(c.buffer_paths, key)
            /\ \A j \in 1..(loc.ki - 1) : StrLess(loc.new_keys[j], key)
    ]_vars

\* a later key of a cycle is being appended to a buffer whose run-long
\* order is already broken
C4_Witness ==
  /\ pc = "normalize"
  /\ loc.ki > 1
  /\ loc.new_keys[loc.ki - 1] \in Get(clients, Folder).seen_keys
  /\ ~IsAscending(Appended(Folder))

(***************************************************************************)
(* What the history says about one call of api_upload_files                *)
(***************************************************************************)
\* the POSTs made for the block number n of the history (0 when
\* api_upload_files runs alone), in the order they were made
PostsOf(n) == SelectSeq(posts, LAMBDA p : p.call = n)

Files(ps) == Flatten([i \in 1..Len(ps) |-> ps[i].files])

IsPrefix(s, t) == Len(s) <= Len(t) /\ s = SubSeq(t, 1, Len(s))

(***************************************************************************)
(* C5: api_upload_files called with L files makes ceil(L/12) POSTs (none   *)
(* for L = 0), each of at most 12 files, and the sub-batches one after     *)
(* the other are the input list, nothing dropped, doubled or reordered;    *)
(* while the call runs, the files posted so far are a prefix of the list.  *)
(***************************************************************************)
C5_SubBatchSplitting ==
  LET L == Len(loc.collages)
  IN  /\ \A i \in 1..Len(posts) :
           Len(posts[i].files) >= 1 /\ Len(posts[i].files) <= MAX_PER_CALL
      /\ IsPrefix(Files(posts), loc.collages)
      /\ pc = "returned" =>
           /\ Len(posts) = (L + MAX_PER_CALL - 1) \div MAX_PER_CALL
           /\ Files(posts) = loc.collages

\* a call with three sub-batches, the last one partial, has returned
C5_Witness ==
  /\ pc = "returned"
  /\ Len(posts) = 3
  /\ Len(posts[3].files) < MAX_PER_CALL
  /\ Len(posts[1].files) = MAX_PER_CALL

(***************************************************************************)
(* C6: a sub-batch whose POST fails (an exception or an error status) is   *)
(* tried again by api_upload_files before the call goes on to the next     *)
(* sub-batch or returns.                                                   *)
(***************************************************************************)
C6_Retried ==
  \A i \in 1..Len(posts) :
    (Failed(posts[i]) /\ (i < Len(posts) \/ pc # "post")) =>
      \E j \in (i + 1)..Len(posts) :
        posts[j].call = posts[i].call /\ posts[j].start = posts[i].start

(***************************************************************************)
(* C7: a POST that fails neither sets runner.error nor touches the         *)
(* clients: the call goes on with the next sub-batch, or returns to the    *)
(* thread where a successful call returns; and when the run ends through   *)
(* inactivity every block of the history, those after a failed POST        *)
(* included, has had all its collages posted.                              *)
(***************************************************************************)
C7_NoShortCircuit ==
  /\ [][ (/\ pc = "post"
          /\ Len(posts') > Len(posts)
          /\ Failed(posts'[Len(posts')]))
           => /\ runner.error = None
              /\ runner' = runner
              /\ clients' = clients
              /\ pc' = IF loc.start + MAX_PER_CALL < Len(loc.collages)
                       THEN "post" ELSE ReturnPc(loc.phase)
              /\ pc' = "post" => loc'.start = loc.start + MAX_PER_CALL
       ]_vars
  /\ [](EndedByInactivity =>
          \A n \in 1..Len(chunks) :
            Files(PostsOf(n)) = create_collages_from_paths(chunks[n].images))

\* the run has ended through inactivity, and after a failed POST the
\* thread has posted the collages of a later block
C7_Witness ==
  /\ EndedByInactivity
  /\ \E i \in 1..(Len(posts) - 1) :
       Failed(posts[i]) /\ posts[i + 1].call > posts[i].call

(***************************************************************************)
(* C8: once list_objects has raised, nothing more is listed, normalized,   *)
(* posted or drained: the thread only records the error in runner.error    *)
(* and ends with running False and ended True.                             *)
(***************************************************************************)
C8_FatalListing ==
  [][ (pc = "except" \/ runner.error # None) =>
        /\ clients' = clients
        /\ chunks' = chunks
        /\ posts' = posts
        /\ storage' = storage
        /\ pc' \in {"finally", "done"}
        /\ runner'.error = ListError
        /\ pc' = "done" => ~runner'.running /\ runner'.ended
    ]_vars

\* the thread has ended on a listing error and has left a buffer undrained
C8_Witness ==
  /\ pc = "done"
  /\ runner.error = ListError
  /\ ~runner.running
  /\ runner.ended
  /\ \E i \in ClientIdx : clients.map[i].buffer_paths # <<>>

(***************************************************************************)
(* C9: the normalization of one key either adds the key to the buffer, to  *)
(* normalized_count and to seen_keys together, or, when it fails, leaves   *)
(* the clients as they were; in both cases runner is untouched and the     *)
(* loop goes on with the next key of new_keys, or with the blocks of 36    *)
(* after the last one.                                                     *)
(***************************************************************************)
C9_NormalizeFailure ==
  [][ pc = "normalize" =>
        LET key == loc.new_keys[loc.ki]
            c   == Get(clients, Folder)
            d   == clients'.map[Idx(clients, Folder)]
        IN  /\ runner' = runner
            /\ pc' = IF loc.ki < Len(loc.new_keys) THEN "normalize"
                     ELSE "chunk"
            /\ pc' = "normalize" =>
                 loc'.ki = loc.ki + 1 /\ loc'.new_keys = loc.new_keys
            /\ \/ clients' = clients
               \/ /\ d.buffer_paths = Append(c.buffer_paths, key)
                  /\ d.normalized_count = c.normalized_count + 1
                  /\ d.seen_keys = c.seen_keys \cup {key}
            /\ key \notin d.seen_keys => clients' = clients
    ]_vars

\* the first key of new_keys has failed, the second one is in the buffer,
\* and the loop is at a third
C9_Witness ==
  /\ pc = "normalize"
  /\ loc.ki >= 3
  /\ loc.new_keys[1] \notin Get(clients, Folder).seen_keys
  /\ loc.new_keys[2] \in Get(clients, Folder).seen_keys
  /\ "normalisation failed" \in logs

(***************************************************************************)
(* C10: when the run ends through inactivity, every client has an empty    *)
(* buffer and the status "termine"; what was left in a buffer (1 to 35     *)
(* images) has gone as one last block through the collages and the POSTs,  *)
(* so that every normalized image is in exactly one block.                 *)
(***************************************************************************)
C10_DrainCompleteness ==
  EndedByInactivity =>
    /\ \A i \in ClientIdx :
         LET c     == clients.map[i]
             all   == SelectSeq(chunks, LAMBDA k : k.client = clients.order[i])
             drain == ChunksOf(clients.order[i], "drain")
         IN  /\ c.buffer_paths = <<>>
             /\ c.status = "termine"
             /\ Len(drain) <= 1
             /\ \A j \in 1..Len(drain) :
                  /\ Len(drain[j].images) >= 1
                  /\ Len(drain[j].images) < CHUNK_SIZE
             /\ Len(Images(all)) = c.normalized_count
             /\ Range(Images(all)) = c.seen_keys
             /\ c.files_sent = c.normalized_count
    /\ \A n \in 1..Len(chunks) :
         chunks[n].phase = "drain" =>
           /\ PostsOf(n) # <<>>
           /\ Files(PostsOf(n)) = create_collages_from_paths(chunks[n].images)

\* the run has ended through inactivity after the drain of two clients
C10_Witness ==
  /\ EndedByInactivity
  /\ Len(SelectSeq(chunks, LAMBDA k : k.phase = "drain")) = 2
  /\ \A i \in ClientIdx : clients.map[i].status = "termine"

(***************************************************************************)
(* C11: the drain is entered from the inactivity test only and is left     *)
(* for the end of the thread only, so it runs at most once and takes at    *)
(* most one block per client; for a client whose buffer is empty at that   *)
(* time no block is passed to create_collages_from_paths, nothing is       *)
(* posted, and files_sent, collages_sent and api_calls keep their values.  *)
(***************************************************************************)
Counters(c) == <<c.files_sent, c.collages_sent, c.api_calls>>

C11_DrainOnce ==
  /\ [][ /\ (loc.phase # "drain" /\ loc'.phase = "drain") => pc = "inactive"
         /\ loc.phase = "drain" =>
              \/ /\ loc'.phase = "drain"
                 /\ loc'.di >= loc.di
                 /\ pc' \in {"drain", "drain_empty", "drain_collage",
                             "upload", "post", "drain_count"}
              \/ pc' = "finally" /\ loc'.phase = "drain"
              \/ pc' = "done"
         /\ pc = "done" => pc' = "done"
         /\ (/\ pc = "drain"
             /\ Get(clients, DrainFolder).buffer_paths = <<>>)
              => /\ pc' = "drain_empty"
                 /\ clients' = clients
                 /\ chunks' = chunks
                 /\ posts' = posts
         /\ pc = "drain_empty" =>
              /\ pc' \in {"drain", "finally"}
              /\ chunks' = chunks
              /\ posts' = posts
              /\ \A i \in ClientIdx :
                   Counters(clients'.map[i]) = Counters(clients.map[i])
       ]_vars
  /\ [](\A i \in ClientIdx : Len(ChunksOf(clients.order[i], "drain")) <= 1)

\* the run has ended through inactivity; a client that had images sent
\* had nothing left in its buffer when the drain came to it
C11_Witness ==
  /\ EndedByInactivity
  /\ \E i \in ClientIdx :
       /\ clients.map[i].files_sent > 0
       /\ clients.map[i].status = "termine"
       /\ ChunksOf(clients.order[i], "drain") = <<>>

(***************************************************************************)
(* C12: when the run ends through inactivity, a client with N normalized   *)
(* images has had 12*floor(N/36) + ceil((N mod 36)/3) collages built and   *)
(* posted, in floor(N/36) + (1 if N mod 36 > 0) POSTs, and collages_sent   *)
(* and api_calls are these two numbers.                                    *)
(***************************************************************************)
\* the numbers of the blocks of one client in the history
CallsOf(f) == {n \in 1..Len(chunks) : chunks[n].client = f}

PostsFor(f) == SelectSeq(posts, LAMBDA p : p.call \in CallsOf(f))

C12_EndToEndCounts ==
  EndedByInactivity =>
    \A i \in ClientIdx :
      LET c        == clients.map[i]
          N        == c.normalized_count
          r        == N % CHUNK_SIZE
          collages == 12 * (N \div CHUNK_SIZE) + (r + 2) \div 3
          calls    == N \div CHUNK_SIZE + (IF r > 0 THEN 1 ELSE 0)
      IN  /\ Len(Files(PostsFor(clients.order[i]))) = collages
          /\ Len(PostsFor(clients.order[i])) = calls
          /\ c.collages_sent = collages
          /\ c.api_calls = calls

\* 75 images: 25 collages in 3 POSTs
C12_Witness ==
  /\ EndedByInactivity
  /\ \E i \in ClientIdx :
       /\ clients.map[i].normalized_count = 2 * CHUNK_SIZE + 3
       /\ clients.map[i].collages_sent = 25
       /\ clients.map[i].api_calls = 3
       /\ Len(PostsFor(clients.order[i])) = 3

(***************************************************************************)
(* C13: for M >= 1 images create_collages_from_paths returns ceil(M/3)     *)
(* collages; collage j tiles the input images 3(j-1)+1 .. min(3j, M) in    *)
(* input order, so only the last collage can hold fewer than 3 images and  *)
(* the collages one after the other are the input list.                    *)
(***************************************************************************)
C13_CollageCountOrder ==
  (pc = "collage_returned" /\ Len(loc.block) >= 1) =>
    LET M   == Len(loc.block)
        out == loc.collages
    IN  /\ Len(out) = (M + 2) \div 3
        /\ \A j \in 1..Len(out) :
             out[j] = SubSeq(loc.block, 3 * (j - 1) + 1, Min(3 * j, M))
        /\ \A j \in 1..(Len(out) - 1) : Len(out[j]) = 3
        /\ Len(out[Len(out)]) \in 1..3

\* a call on a list that ends with a group of fewer than 3 images
C13_Witness ==
  /\ pc = "collage_returned"
  /\ Len(loc.block) > CHUNK_SIZE
  /\ Len(loc.block) % 3 = 1
  /\ Len(loc.collages[Len(loc.collages)]) = 1

(***************************************************************************)
(* C14: a key enters seen_keys only in a poll cycle whose "updated" is     *)
(* set; "updated" stays set up to the inactivity test; at the test of      *)
(* such a cycle last_activity has just been set to the current time, and   *)
(* the thread goes to sleep, not to the drain.                             *)
(***************************************************************************)
C14_ActivityReset ==
  /\ [][ /\ (\E i \in ClientIdx :
               clients'.map[i].seen_keys # clients.map[i].seen_keys)
              => loc.updated /\ loc'.updated /\ loc.phase = "poll"
         /\ (loc.updated /\ pc # "inactive") => loc'.updated
         /\ (loc.updated /\ pc = "inactive") =>
              pc' = "sleep" /\ chunks' = chunks /\ loc'.phase # "drain"
       ]_vars
  /\ []((pc = "inactive" /\ loc.updated) => since_activity = 0 /\ ~inactive)

\* the inactivity test of a cycle that has added keys after the browser
\* has uploaded everything
C14_Witness ==
  /\ pc = "inactive"
  /\ loc.updated
  /\ since_activity = 0
  /\ pending = {}
  /\ \E i \in ClientIdx : clients.map[i].normalized_count > CHUNK_SIZE

(***************************************************************************)
(* C15: the result of group_keys_by_client does not depend on the order    *)
(* of the key list (same folders, same sorted lists of keys), and a key    *)
(* of a list K is in the same folder's group in the result for any list    *)
(* that holds the keys of K.                                               *)
(***************************************************************************)
\* a dict as Python compares dicts: the set of its items
Items(d) == {<<d.order[i], d.map[i]>> : i \in 1..Len(d.order)}

FoldersOf(d, k) == {d.order[i] : i \in {j \in 1..Len(d.order) :
                                         k \in Range(d.map[j])}}

C15_GroupingOrderIndependent ==
  pc = "grouped" =>
    /\ \A P \in KeyLists(MaxKeys) :
         (Len(P) = Len(storage) /\ Range(P) = Range(storage)) =>
           Items(group_keys_by_client(P, batch_prefix)) = Items(loc.groups)
    /\ \A K2 \in KeyLists(MaxKeys) :
         Range(storage) \subseteq Range(K2) =>
           \A k \in Range(storage) :
             FoldersOf(group_keys_by_client(K2, batch_prefix), k)
               = FoldersOf(loc.groups, k)

\* a list that holds two keys of one folder, the greater one first
C15_Witness ==
  /\ pc = "grouped"
  /\ Len(storage) = 3
  /\ storage[1] = KeyA(0)
  /\ storage[2] = NestedKey
  /\ \E i \in 1..Len(loc.groups.order) :
       loc.groups.map[i] = <<NestedKey, KeyA(0)>>

(***************************************************************************)
(* C16: in the result of group_keys_by_client over different keys, a key   *)
(* is in no group, or once in one group; it is in a group exactly when it  *)
(* starts with the batch prefix, does not end in "/" and has, after the    *)
(* prefix, a segment of the form "Name - Address"; its group is then the   *)
(* first such segment; the groups hold keys of the list only.              *)
(***************************************************************************)
\* the segments of a path, as pairs of positions
Segments(rel) ==
  {ab \in (1..Len(rel)) \X (1..Len(rel)) :
     /\ ab[1] <= ab[2]
     /\ \A i \in ab[1]..ab[2] : rel[i] # "/"
     /\ ab[1] = 1 \/ rel[ab[1] - 1] = "/"
     /\ ab[2] = Len(rel) \/ rel[ab[2] + 1] = "/"}

\* "^\s*(.+?)\s*-\s*(.+?)\s*$" matches: a hyphen with a character before
\* it and a character after it
IsClientName(seg) == \E h \in 2..(Len(seg) - 1) : seg[h] = "-"

C16_GroupingPartialPartition ==
  pc = "grouped" =>
    LET g == loc.groups
    IN  /\ \A i, j \in 1..Len(g.order) : g.order[i] = g.order[j] => i = j
        /\ \A i \in 1..Len(g.order) : Range(g.map[i]) \subseteq Range(storage)
        /\ \A k \in Range(storage) :
             LET places == {rj \in (1..Len(g.order)) \X (1..Len(storage)) :
                              /\ rj[2] <= Len(g.map[rj[1]])
                              /\ g.map[rj[1]][rj[2]] = k}
                 rel    == SubSeq(k, Len(batch_prefix) + 1, Len(k))
                 hits   == {ab \in Segments(rel) :
                              IsClientName(SubSeq(rel, ab[1], ab[2]))}
                 wanted == /\ startswith(k, batch_prefix)
                           /\ k[Len(k)] # "/"
                           /\ hits # {}
             IN  /\ Cardinality(places) = IF wanted THEN 1 ELSE 0
                 /\ \A rj \in places :
                      \E ab \in hits :
                        /\ g.order[rj[1]] = SubSeq(rel, ab[1], ab[2])
                        /\ \A cd \in hits : ab[1] <= cd[1]

\* a list with a key to leave out, a key with two client folders on its
\* path, and a key of the second of these folders
C16_Witness ==
  /\ pc = "grouped"
  /\ Range(storage) = {DirMarker, NestedKey, KeyB(0)}
  /\ Len(loc.groups.order) = 2

(***************************************************************************)
(* C17: get_coordinates is called once for a client folder, when the       *)
(* client is created, and never again; a client has coordinates or the     *)
(* sentinel "N/A" for both lat and lng, never None; and when the run ends  *)
(* through inactivity a client with the sentinel has had all its images    *)
(* sent, its POSTs carrying the sentinel in the description.               *)
(***************************************************************************)
C17_GeocodingOnce ==
  /\ geo_calls = clients.order
  /\ \A i, j \in 1..Len(geo_calls) : geo_calls[i] = geo_calls[j] => i = j
  /\ \A i \in ClientIdx :
       LET c == clients.map[i]
       IN  /\ c.lat # None /\ c.lng # None
           /\ c.lat = NA <=> c.lng = NA
           /\ (EndedByInactivity /\ c.lat = NA) =>
                /\ c.buffer_paths = <<>>
                /\ c.files_sent = c.normalized_count
                /\ c.normalized_count > 0 => PostsFor(clients.order[i]) # <<>>
                /\ \A n \in 1..Len(PostsFor(clients.order[i])) :
                     PostsFor(clients.order[i])[n].description.lat = NA

\* two clients geocoded, one without result, whose blocks of 36 and last
\* block have been sent
C17_Witness ==
  /\ EndedByInactivity
  /\ Len(geo_calls) = 2
  /\ \E i \in ClientIdx :
       /\ clients.map[i].lat = NA
       /\ clients.map[i].files_sent > CHUNK_SIZE
       /\ clients.map[i].files_sent % CHUNK_SIZE > 0

(***************************************************************************)
(* C18: the UI script reads and iterates rt["clients"] under LOCK only,    *)
(* so while it iterates the clients map the thread inserts no client: the  *)
(* map has, at every turn of the loop, the size it had when the loop       *)
(* began, and no run of the script ends on an error of the iterator.       *)
(***************************************************************************)
C18_ThreadSafe ==
  /\ ui.pc = "bar" => Len(clients.order) = ui.size
  /\ ui.pc # "crashed"

(***************************************************************************)
(* C19: exactly-once membership of the blocks.                             *)
(***************************************************************************)
NoDuplicate(s) == Cardinality(Range(s)) = Len(s)

\* every key appended to the buffer of f lies at one place only: in one
\* block of the history, in the block in flight, or still in the buffer
AtMostOneChunk(f) ==
  /\ NoDuplicate(Appended(f))
  /\ Range(Appended(f)) = Get(clients, f).seen_keys

\* every key appended to the buffer of f has left it and lies in one block
InOneChunk(f) ==
  /\ Get(clients, f).buffer_paths = <<>>
  /\ InFlight(f) = <<>>
  /\ AtMostOneChunk(f)

\* every POST carries collages of the block its call was made for, and no
\* image goes out in two POSTs
AtMostOneDeposit ==
  /\ \A i \in 1..Len(posts) :
       /\ posts[i].call \in 1..Len(chunks)
       /\ Range(posts[i].files) \subseteq
            Range(create_collages_from_paths(chunks[posts[i].call].images))
  /\ NoDuplicate(Flatten(Files(posts)))

\* lines 321-326 and 359-362: a step that shortens a buffer is a step of
\* the thread that moves the removed images, all of them and in order,
\* into the local block; the UI script sees the buffer before or after
RemovalIsAtomic ==
  \A i \in ClientIdx :
    LET b  == clients.map[i].buffer_paths
        b2 == clients'.map[i].buffer_paths
    IN  b2 # b /\ Len(b2) <= Len(b) =>
          /\ pc \in {"chunk", "drain"}
          /\ loc'.block \o b2 = b
          /\ ui' = ui

\* C19 as stated: every image appended to a buffer is removed from it
\* exactly once and lies in exactly one block, so that once the thread has
\* ended no buffer holds an image; no image is in two blocks or two POSTs.
C19_ExactlyOnce ==
  /\ \A i \in ClientIdx : AtMostOneChunk(clients.order[i])
  /\ AtMostOneDeposit
  /\ pc = "done" => \A i \in ClientIdx : InOneChunk(clients.order[i])

\* C19 amended: in every interleaving of the thread with the UI script, an
\* image appended to a buffer is never in two blocks nor in two POSTs, and
\* a block leaves the buffer in one step under LOCK; every appended image
\* is in exactly one block once the thread has ended through inactivity
\* (after a fatal error the images still buffered are in no block).
C19_AtMostOnce ==
  /\ [](/\ \A i \in ClientIdx : AtMostOneChunk(clients.order[i])
        /\ AtMostOneDeposit
        /\ EndedByInactivity =>
             \A i \in ClientIdx : InOneChunk(clients.order[i]))
  /\ [][RemovalIsAtomic]_vars

\* the UI script is in its loop over the clients while the second block of
\* 36 images of a client has left the buffer and is not yet in the history
C19_Witness ==
  /\ ui.pc = "bar"
  /\ pc = "collage"
  /\ Len(loc.block) = CHUNK_SIZE
  /\ \E n \in 1..Len(chunks) : chunks[n].client = Folder
  /\ AtMostOneChunk(Folder)

(***************************************************************************)
(* C20: conservation of the images of every client.                        *)
(***************************************************************************)
\* the block of f that has left the buffer (lines 325-326, 360-362) and is
\* not yet added to files_sent (lines 339, 375)
Uncounted(f) ==
  IF /\ pc \in {"collage", "upload", "post", "count"}
     /\ loc.phase = "poll"
     /\ Folder = f
  THEN loc.block
  ELSE IF /\ pc \in {"drain_empty", "drain_collage", "upload", "post",
                     "drain_count"}
          /\ loc.phase = "drain"
          /\ DrainFolder = f
  THEN loc.block
  ELSE <<>>

\* C20: in every state and for every client, normalized_count is files_sent
\* plus the length of the buffer plus the size of the block that has left
\* the buffer and is not yet counted; when the thread has ended through
\* inactivity, files_sent = normalized_count.
C20_Conservation ==
  \A i \in ClientIdx :
    LET c == clients.map[i]
    IN  /\ c.normalized_count =
             c.files_sent + Len(c.buffer_paths)
               + Len(Uncounted(clients.order[i]))
        /\ EndedByInactivity => c.files_sent = c.normalized_count

\* one block of a client is counted, the next one is being posted and
\* images are left in the buffer: the three terms are all positive
C20_Witness ==
  /\ pc = "post"
  /\ loc.phase = "poll"
  /\ Len(Uncounted(Folder)) = CHUNK_SIZE
  /\ Get(clients, Folder).files_sent = CHUNK_SIZE
  /\ Get(clients, Folder).buffer_paths # <<>>
  /\ Get(clients, Folder).normalized_count > 2 * CHUNK_SIZE

(***************************************************************************)
(* C21: the append to buffer_paths, the increment of normalized_count and  *)
(* the insertion into seen_keys of one key are one step under LOCK, so in  *)
(* every state that the thread or the UI script can see under LOCK the     *)
(* normalized_count of every client is the size of its seen_keys; a step   *)
(* that changes one of the two changes the other and lengthens the buffer  *)
(* by the same key.                                                        *)
(***************************************************************************)
MoveTogether ==
  \A i \in ClientIdx :
    LET c == clients.map[i]
        d == clients'.map[i]
    IN  (d.normalized_count # c.normalized_count \/ d.seen_keys # c.seen_keys)
          => \E key \in d.seen_keys \ c.seen_keys :
               /\ d.seen_keys = c.seen_keys \cup {key}
               /\ d.normalized_count = c.normalized_count + 1
               /\ d.buffer_paths = Append(c.buffer_paths, key)

C21_SeenCountTogether ==
  /\ [](\A i \in ClientIdx :
          clients.map[i].normalized_count
            = Cardinality(clients.map[i].seen_keys))
  /\ [][MoveTogether]_vars

\* the UI script builds its table under LOCK while the thread is in the
\* middle of the normalization loop of a client, after a key that failed
C21_Witness ==
  /\ ui.pc = "table"
  /\ pc = "normalize"
  /\ loc.ki > 1
  /\ Get(clients, Folder).normalized_count > 0
  /\ "normalisation failed" \in logs

(***************************************************************************)
(* C22: the flags of runner over the life of processor_thread.             *)
(***************************************************************************)
\* the thread is between the LOCK block of lines 259-264 and the one of
\* lines 394-396
InLoop == pc \notin {"start", "done"}

LifecycleState ==
  /\ InLoop => runner.running /\ ~runner.ended
  /\ pc = "done" => ~runner.running /\ runner.ended
  /\ runner.error # None =>
       /\ runner.error = ListError
       /\ pc \in {"finally", "done"}
       /\ "inactivity" \notin logs
  /\ pc = "done" /\ runner.error = None => "inactivity" \in logs

LifecycleStep ==
  /\ pc = "done" => runner' = runner /\ pc' = "done"
  /\ runner'.error # runner.error => pc = "except"
  /\ runner' # runner => pc \in {"start", "except", "finally"}

\* C22: from the start of the polling loop until the exit handler runs,
\* running is True and ended is False; once the thread has finished, by the
\* drain or by an exception, running is False and ended is True and runner
\* never changes again, whatever the UI script does; error is set exactly
\* when the loop was left through an exception.
C22_RunnerLifecycle ==
  /\ []LifecycleState
  /\ [][LifecycleStep]_vars

\* the thread has ended on an exception after it had registered a client,
\* and the UI script has read the flags and stopped its refresh
C22_Witness ==
  /\ pc = "done"
  /\ runner.error = ListError
  /\ ~runner.running
  /\ runner.ended
  /\ ui.pc = "stopped"
  /\ clients.order # <<>>
  /\ LifecycleState

(***************************************************************************)
(* C23: last_activity is written (lines 349-351) only at the end of a poll *)
(* cycle that has added a key to the seen_keys of some client; a cycle in  *)
(* which no key was normalized leaves it as it was.                        *)
(***************************************************************************)
C23_ResetOnlyByProgress ==
  [][(pc = "activity" /\ since_activity' = 0) => loc.added]_vars

====
